---- MODULE Spec2Model ----
(***************************************************************************)
(* A model of the hand gesture recogniser of README.md, as the README      *)
(* prints it: the main loop (calibration, segmentation, hand data, wave    *)
(* check, finger count, gesture vote, on-screen text) and the functions it *)
(* calls.                                                                  *)
(*                                                                         *)
(* The README gives the program as fragments that the reader puts into the *)
(* cells of a notebook.  Put together as they are printed, five names of   *)
(* the fragments do not resolve, and each raises where it is reached:      *)
(*   - cv2.rectangle(display_frame, ...) at the end of write_on_image      *)
(*     (NameError), after both cv2.putText and before cv2.imshow and       *)
(*     frames_elapsed += 1;                                                *)
(*   - "if hand == None" in get_hand_data, which assigns hand without      *)
(*     declaring it global (UnboundLocalError);                            *)
(*   - handData.checkForWaving(centerX) in get_hand_data (NameError);      *)
(*   - handData.centerX in check_for_waving (NameError);                   *)
(*   - hand.gestureList, of a class that creates gesture_list              *)
(*     (AttributeError).                                                   *)
(* The model raises where the program raises.  A function that can raise   *)
(* is an operator whose value is an outcome: what the function has left    *)
(* behind, and in the field raised the exception it ended with ("" for a   *)
(* return).  An uncaught exception ends the program.                       *)
(*                                                                         *)
(* Spec is the program run from its start.  Its first pass of the loop     *)
(* ends in write_on_image, so SpecPass runs one pass of the loop from any  *)
(* frame number, background and hand, and SpecLabel, SpecWave, SpecVote,   *)
(* SpecFingers and SpecMode call one function each on inputs drawn from    *)
(* bounded sets.                                                           *)
(*                                                                         *)
(* Images are small grids of 8-bit intensities, img[y][x] as in numpy.     *)
(* A frame's input is the region get_region returns (cropped, grey,        *)
(* blurred).                                                               *)
(***************************************************************************)
EXTENDS Integers, Sequences, FiniteSets

(* ---------------------------------------------------------------------- *)
(* Program constants                                                       *)
(* ---------------------------------------------------------------------- *)
CALIBRATION_TIME == 30
OBJ_THRESHOLD == 18
\* frames_elapsed % 8 == 0 gates the wave check
WAVE_INTERVAL == 8
\* centerX - prevCenterX > 3
WAVE_DISTANCE == 3
\* frames_elapsed % 12 == 0 gates the gesture vote
VOTE_INTERVAL == 12
\* width > 5 in count_fingers
MIN_FINGER_WIDTH == 5

(* ---------------------------------------------------------------------- *)
(* Bounds of the model                                                     *)
(* ---------------------------------------------------------------------- *)
\* the region is RegionW x RegionH pixels (150 x 133 in the program)
RegionW == 16
RegionH == 4
\* SpecPass and SpecLabel: the frame numbers 0 .. MaxFrames
MaxFrames == 42
\* SpecVote: the vote is run on MaxVoteFrames frames in a row
MaxVoteFrames == 14
\* SpecVote: the count of a frame is in 0 .. MaxVoted
MaxVoted == 1
\* SpecFingers: the width of the patterns handed to count_fingers
ProbeW == 10
\* the largest finger count of the hands write_on_image is tried on
MaxCounted == 5
\* SpecMode: the lists handed to most_frequent hold up to MaxHistory counts,
\* each in 0 .. MaxGesture
MaxHistory == 5
MaxGesture == 3

Cols == 0 .. (RegionW - 1)
Rows == 0 .. (RegionH - 1)

\* Python's None; an optional value is a sequence of length 0 or 1.
None == << >>

Abs(n) == IF n < 0 THEN -n ELSE n

(* ---------------------------------------------------------------------- *)
(* The scenes a frame may show: the grey level of the empty region and the *)
(* pixels an object (a hand) covers.                                       *)
(* ---------------------------------------------------------------------- *)
Scenes == {"Empty", "FistL", "FistR", "One", "Two", "Three"}

ObjLevel == 160

Ambient(s) == 100

\* the palm and, above it, the raised fingers; all inside the region
ObjectAt(s, x, y) ==
    CASE s = "FistL" -> x \in 1..10 /\ y \in 1..2
      [] s = "FistR" -> x \in 5..14 /\ y \in 1..2
      [] s = "One"   -> \/ x \in 1..10 /\ y = 2
                        \/ x \in 1..4 /\ y = 1
      [] s = "Two"   -> \/ x \in 1..10 /\ y = 2
                        \/ x \in (1..4) \cup (6..9) /\ y = 1
      [] s = "Three" -> \/ x \in 1..14 /\ y = 2
                        \/ x \in (1..4) \cup (6..9) \cup (11..14) /\ y = 1
      [] OTHER -> FALSE

SceneRegion(s) ==
    [y \in Rows |-> [x \in Cols |->
        IF ObjectAt(s, x, y) THEN ObjLevel ELSE Ambient(s)]]

Catalogue == [s \in Scenes |-> SceneRegion(s)]

(* ---------------------------------------------------------------------- *)
(* Step 3b: the background, a float image.  A float is <<whole, frac>>,    *)
(* frac counted in units of 1/FracOne: with BG_WEIGHT = 0.5 and 8-bit      *)
(* input every value the 29 accumulations of a calibration produce is such *)
(* a number exactly, as it is a float64 exactly.                           *)
(* ---------------------------------------------------------------------- *)
FracOne == 2^29

\* region.copy().astype("float")
AsFloat(region) == [y \in Rows |-> [x \in Cols |-> <<region[y][x], 0>>]]

\* cv2.accumulateWeighted(region, background, BG_WEIGHT), BG_WEIGHT = 0.5:
\* background = 0.5 * background + 0.5 * region, pixel by pixel
accumulateWeighted(region, dst) ==
    [y \in Rows |-> [x \in Cols |->
        LET sum == dst[y][x][1] + region[y][x]
        IN  <<sum \div 2, ((sum % 2) * FracOne + dst[y][x][2]) \div 2>>]]

\* a get_average that leaves a missing background missing
get_average_Unseeded(bg, region) ==
    IF bg = None THEN None
    ELSE <<accumulateWeighted(region, bg[1])>>

\* get_average(region): the new value of the global background
get_average(bg, region) ==
    IF bg = None THEN <<AsFloat(region)>>
    ELSE <<accumulateWeighted(region, bg[1])>>

(* ---------------------------------------------------------------------- *)
(* Step 3c: segmentation.                                                  *)
(* ---------------------------------------------------------------------- *)
\* background.astype(np.uint8): the fraction is dropped
AsUint8(f) == f[1]

\* cv2.threshold(cv2.absdiff(background.astype(np.uint8), region),
\*               OBJ_THRESHOLD, 255, cv2.THRESH_BINARY)[1]
Thresholded(bg, region) ==
    [y \in Rows |-> [x \in Cols |->
        IF Abs(AsUint8(bg[1][y][x]) - region[y][x]) > OBJ_THRESHOLD
        THEN 255 ELSE 0]]

\* The maximal horizontal runs <<y, a, b>> of non-zero pixels of row y.
RunEnd(img, y, a) ==
    CHOOSE b \in a..(RegionW - 1) :
        /\ \A x \in a..b : img[y][x] # 0
        /\ (b = RegionW - 1 \/ img[y][b + 1] = 0)

RowRuns(img, y) ==
    {<<y, a, RunEnd(img, y, a)>> :
        a \in {x \in Cols : img[y][x] # 0 /\ (x = 0 \/ img[y][x - 1] = 0)}}

Runs(img) == UNION {RowRuns(img, y) : y \in Rows}

\* two runs of neighbouring rows with pixels that touch (8-connected)
Touch(r, q) ==
    /\ Abs(r[1] - q[1]) = 1
    /\ r[2] <= q[3] + 1
    /\ q[2] <= r[3] + 1

RECURSIVE Grow(_, _)
Grow(blob, all) ==
    LET more == {r \in all \ blob : \E q \in blob : Touch(r, q)}
    IN  IF more = {} THEN blob ELSE Grow(blob \cup more, all)

\* cv2.findContours(img, cv2.RETR_EXTERNAL, ...): one outline per connected
\* blob; an outline is held as the blob it encloses, a set of runs.
findContours(img) ==
    LET all == Runs(img) IN {Grow({r}, all) : r \in all}

\* (x, y) is a pixel of one of the runs
Covered(runs, x, y) ==
    \E r \in runs : r[1] = y /\ r[2] <= x /\ x <= r[3]

\* the runs of the pixels a blob leaves free
Gaps(blob) ==
    Runs([y \in Rows |-> [x \in Cols |->
            IF Covered(blob, x, y) THEN 0 ELSE 255]])

\* two runs of neighbouring rows with pixels one above the other
\* (4-connected, as the background is)
Touch4(r, q) ==
    /\ Abs(r[1] - q[1]) = 1
    /\ r[2] <= q[3]
    /\ q[2] <= r[3]

RECURSIVE Flood(_, _)
Flood(part, all) ==
    LET more == {r \in all \ part : \E q \in part : Touch4(r, q)}
    IN  IF more = {} THEN part ELSE Flood(part \cup more, all)

\* the free pixels an outer outline encloses: those with no way out to the
\* edge of the image (a blob of fewer than three rows encloses none)
Holes(blob) ==
    IF Cardinality({r[1] : r \in blob}) < 3 THEN {}
    ELSE LET gaps == Gaps(blob)
             edge == {r \in gaps : \/ r[1] = 0 \/ r[1] = RegionH - 1
                                    \/ r[2] = 0 \/ r[3] = RegionW - 1}
         IN  gaps \ Flood(edge, gaps)

\* Twice the area Green's formula gives for the outer outline of a blob.
\* The outline runs through the centres of the border pixels, so of the unit
\* squares between four neighbouring pixel centres it encloses those with
\* all four pixels inside, and half of those with three.  A square <<x, y>>
\* has the pixels <<x, y>>, <<x + 1, y>>, <<x, y + 1>>, <<x + 1, y + 1>>;
\* one with three or four of them inside has one of its upper two inside.
TwiceArea(blob) ==
    LET inside == UNION {{<<x, r[1]>> : x \in r[2]..r[3]} :
                            r \in blob \cup Holes(blob)}
        squares == inside \cup {<<p[1] - 1, p[2]>> : p \in inside}
        corners == [c \in squares |->
                      Cardinality({<<c[1], c[2]>>, <<c[1] + 1, c[2]>>,
                                   <<c[1], c[2] + 1>>, <<c[1] + 1, c[2] + 1>>}
                                  \cap inside)]
    IN  2 * Cardinality({c \in squares : corners[c] = 4})
          + Cardinality({c \in squares : corners[c] = 3})

\* cv2.contourArea(outline): a float, <<whole, frac>> as above
contourArea(blob) ==
    LET twice == TwiceArea(blob)
    IN  <<twice \div 2, (twice % 2) * (FracOne \div 2)>>

\* a <= b for two floats
FloatLeq(a, b) == a[1] < b[1] \/ (a[1] = b[1] /\ a[2] <= b[2])

\* max(contours, key = cv2.contourArea): the candidates; which of several
\* outlines of the same area comes first in OpenCV's list is not fixed by
\* the program.
Largest(contours) ==
    LET area == [c \in contours |-> contourArea(c)]
    IN  {c \in contours : \A d \in contours : FloatLeq(area[d], area[c])}

(* ---------------------------------------------------------------------- *)
(* Step 2a / 4b: class HandData.                                           *)
(* ---------------------------------------------------------------------- *)
\* HandData(top, bottom, left, right, centerX).  __init__ assigns the four
\* points, centerX and prevCenterX; its "isInFrame = False" and
\* "isWaving = False" are locals, so the object shows the class attributes
\* isInFrame = False, isWaving = False, fingers = 0 and the (empty) list.
HandData(top, bottom, left, right, centerX) ==
    [top |-> top, bottom |-> bottom, left |-> left, right |-> right,
     centerX |-> centerX, prevCenterX |-> 0,
     isInFrame |-> FALSE, isWaving |-> FALSE,
     fingers |-> 0, gesture_list |-> << >>]

\* HandData.update(top, bottom, left, right)
update(h, top, bottom, left, right) ==
    [h EXCEPT !.top = top, !.bottom = bottom, !.left = left, !.right = right]

\* HandData.check_for_waving(centerX), as printed:
\*     self.prevCenterX = self.centerX
\*     self.centerX = centerX
\*     if abs(handData.centerX - handData.prevCenterX > 3):
\* No name handData exists, so the test raises NameError before either
\* branch assigns self.isWaving.
check_for_waving(h, centerX) ==
    [hand |-> [h EXCEPT !.prevCenterX = h.centerX, !.centerX = centerX],
     raised |-> "NameError"]

(* ---------------------------------------------------------------------- *)
(* Step 5a: count_fingers.                                                 *)
(* ---------------------------------------------------------------------- *)
\* int(hand.top[1] + (0.2 * (hand.bottom[1] - hand.top[1])))
LineHeight(h) == h.top[2] + ((h.bottom[2] - h.top[2]) \div 5)

\* len(curr) of an outline cv2.findContours(..., cv2.CHAIN_APPROX_NONE)
\* returns for a one-pixel-high run of n pixels: the border is followed
\* out along the run and back, so every pixel but the two ends is listed
\* twice.
ContourLen(n) == IF n = 1 THEN 1 ELSE 2 * n - 2

\* width < 3 * abs(hand.right[0] - hand.left[0]) / 4 and width > 5
FingerSized(width, h) ==
    /\ 4 * width < 3 * Abs(h.right[1] - h.left[1])
    /\ width > MIN_FINGER_WIDTH

\* count_fingers(thresholded_image): the line drawn at line_height is ANDed
\* with the image, and the outlines of what is left are counted.
count_fingers(thresholded_image, h) ==
    LET line_height == LineHeight(h)
        crossings == IF line_height \in Rows
                     THEN RowRuns(thresholded_image, line_height) ELSE {}
    IN  Cardinality({c \in crossings :
                        FingerSized(ContourLen(c[3] - c[2] + 1), h)})

(* ---------------------------------------------------------------------- *)
(* Step 5b: most_frequent.                                                 *)
(* ---------------------------------------------------------------------- *)
Reversed(list) == [i \in 1..Len(list) |-> list[Len(list) + 1 - i]]

\* the for loop over reversed(input_list), from its k-th item on, with the
\* running count and most_freq; dict[item] is the number of items equal to
\* item seen so far
RECURSIVE Tally(_, _, _, _)
Tally(rev, k, count, most_freq) ==
    IF k > Len(rev) THEN most_freq
    ELSE LET item == rev[k]
             seen == Cardinality({j \in 1..k : rev[j] = item})
         IN  IF seen >= count
             THEN Tally(rev, k + 1, seen, item)
             ELSE Tally(rev, k + 1, count, most_freq)

most_frequent(input_list) == Tally(Reversed(input_list), 1, 0, 0)

(* ---------------------------------------------------------------------- *)
(* Step 4a: get_hand_data.                                                 *)
(* ---------------------------------------------------------------------- *)
\* The extreme points of cv2.convexHull(segmented_image): they are extreme
\* points of the blob.  Points are <<x, y>>.  Of several points of the same
\* height (or the same column) the model takes the first in reading order;
\* the program reads only top[1], bottom[1], left[0] and right[0].
MinOf(S) == CHOOSE n \in S : \A m \in S : n <= m
MaxOf(S) == CHOOSE n \in S : \A m \in S : m <= n

TopOf(blob) ==
    LET y == MinOf({r[1] : r \in blob})
    IN  <<MinOf({r[2] : r \in {q \in blob : q[1] = y}}), y>>

BottomOf(blob) ==
    LET y == MaxOf({r[1] : r \in blob})
    IN  <<MinOf({r[2] : r \in {q \in blob : q[1] = y}}), y>>

LeftOf(blob) ==
    LET x == MinOf({r[2] : r \in blob})
    IN  <<x, MinOf({r[1] : r \in {q \in blob : q[2] = x}})>>

RightOf(blob) ==
    LET x == MaxOf({r[3] : r \in blob})
    IN  <<x, MinOf({r[1] : r \in {q \in blob : q[3] = x}})>>

\* int((left[0] + right[0]) / 2)
CenterX(left, right) == (left[1] + right[1]) \div 2

(* ---------------------------------------------------------------------- *)
(* Step 5b: the vote, the last lines of get_hand_data.                     *)
(* ---------------------------------------------------------------------- *)
\* a vote that finds its list and assigns hand.fingers on every frame
Vote_EveryFrame(fe, h, count) ==
    [hand |-> [h EXCEPT !.fingers = count], raised |-> ""]

\* a vote that finds its list and never clears it
Vote_NeverCleared(fe, h, count) ==
    LET appended == [h EXCEPT !.gesture_list = Append(h.gesture_list, count)]
    IN  [hand |-> IF fe % VOTE_INTERVAL = 0
                  THEN [appended EXCEPT
                          !.fingers = most_frequent(appended.gesture_list)]
                  ELSE appended,
         raised |-> ""]

\* the vote as printed, at frame fe, for the hand h and the count that
\* count_fingers would return:
\*     hand.gestureList.append(count_fingers(thresholded_image))
\*     if frames_elapsed % 12 == 0:
\*         hand.fingers = most_frequent(hand.gestureList)
\*         hand.gestureList.clear()
\* The class creates gesture_list, so hand.gestureList raises
\* AttributeError; it is looked up before count_fingers is called, and
\* nothing is appended, voted or cleared.
Vote(fe, h, count) ==
    [hand |-> h, raised |-> "AttributeError"]

(* ---------------------------------------------------------------------- *)
(* Step 4a: get_hand_data.                                                 *)
(* ---------------------------------------------------------------------- *)
\* a get_hand_data that declares hand global and stores the centre on
\* every frame
get_hand_data_Recentring(fe, hnd, thresholded_image, segmented_image) ==
    LET top == TopOf(segmented_image)
        bottom == BottomOf(segmented_image)
        left == LeftOf(segmented_image)
        right == RightOf(segmented_image)
        centerX == CenterX(left, right)
    IN  IF hnd = None
        THEN [hand |-> <<HandData(top, bottom, left, right, centerX)>>,
              raised |-> ""]
        ELSE [hand |-> <<[update(hnd[1], top, bottom, left, right)
                            EXCEPT !.prevCenterX = hnd[1].centerX,
                                   !.centerX = centerX]>>,
              raised |-> ""]

\* get_hand_data(thresholded_image, segmented_image) at frame fe, hnd being
\* the global hand: the global hand it leaves and the exception it ends
\* with.  The function assigns hand and has no "global hand", so hand is
\* its local: after the hull, the four points and centerX, "if hand ==
\* None" reads the local before it is assigned and raises
\* UnboundLocalError.  The constructor, update(), the wave check and the
\* vote that follow are not reached, and the global hand is as it was.
get_hand_data(fe, hnd, thresholded_image, segmented_image) ==
    LET top == TopOf(segmented_image)
        bottom == BottomOf(segmented_image)
        left == LeftOf(segmented_image)
        right == RightOf(segmented_image)
        centerX == CenterX(left, right)
    IN  [hand |-> hnd, raised |-> "UnboundLocalError"]

\* a segment that drops the hand when it finds no contour
Flagged_Forgetting(hnd, found) ==
    IF hnd # None /\ found THEN <<[hnd[1] EXCEPT !.isInFrame = TRUE]>>
    ELSE None

\* segment(region), its effect on the global hand: the flag is set on an
\* existing hand only
Flagged(hnd, found) ==
    IF hnd # None THEN <<[hnd[1] EXCEPT !.isInFrame = found]>> ELSE hnd

(* ---------------------------------------------------------------------- *)
(* Step 2b: write_on_image, the text it puts on the frame.                 *)
(* ---------------------------------------------------------------------- *)
\* a write_on_image that looks at the hand before the calibration
write_on_image_HandFirst(fe, hnd) ==
    IF hnd = None \/ hnd[1].isInFrame = FALSE THEN "No hand detected"
    ELSE IF fe < CALIBRATION_TIME THEN "Calibrating..."
    ELSE IF hnd[1].isWaving THEN "Waving"
    ELSE IF hnd[1].fingers = 0 THEN "Rock"
    ELSE IF hnd[1].fingers = 1 THEN "Pointing"
    ELSE IF hnd[1].fingers = 2 THEN "Scissors"
    ELSE "Searching..."

\* a write_on_image that looks at the fingers before the waving
write_on_image_FingersFirst(fe, hnd) ==
    IF fe < CALIBRATION_TIME THEN "Calibrating..."
    ELSE IF hnd = None \/ hnd[1].isInFrame = FALSE THEN "No hand detected"
    ELSE IF hnd[1].fingers = 0 THEN "Rock"
    ELSE IF hnd[1].fingers = 1 THEN "Pointing"
    ELSE IF hnd[1].fingers = 2 THEN "Scissors"
    ELSE IF hnd[1].isWaving THEN "Waving"
    ELSE "Searching..."

write_on_image(fe, hnd) ==
    IF fe < CALIBRATION_TIME THEN "Calibrating..."
    ELSE IF hnd = None \/ hnd[1].isInFrame = FALSE THEN "No hand detected"
    ELSE IF hnd[1].isWaving THEN "Waving"
    ELSE IF hnd[1].fingers = 0 THEN "Rock"
    ELSE IF hnd[1].fingers = 1 THEN "Pointing"
    ELSE IF hnd[1].fingers = 2 THEN "Scissors"
    ELSE "Searching..."

\* the call write_on_image(frame, hand) as a whole: the text is put on the
\* frame twice (black, then white), and then
\*     cv2.rectangle(display_frame, ...)
\* raises NameError, there being no display_frame.
Written(fe, hnd) ==
    [text |-> write_on_image(fe, hnd), raised |-> "NameError"]

(* ---------------------------------------------------------------------- *)
(* The state and the main loop.                                            *)
(* ---------------------------------------------------------------------- *)
VARIABLES
    frames_elapsed,  \* the global frame counter
    background,      \* the global background: None or <<float image>>
    hand,            \* the global hand: None or <<HandData>>
    region_pair,     \* what segment() returned in the last pass
    text,            \* the text the last pass put on its frame, "" if none
    raised,          \* the exception that ended the last pass or call, or ""
    region,          \* the region as the last pass left it: None or <<image>>
    counted,         \* SpecVote: the count of the last frame, or None
    streak,          \* SpecVote: for how many frames in a row it was that
    probe,           \* the input handed to a function that is run alone
    answer           \* what the function left for the probe

vars == <<frames_elapsed, background, hand, region_pair, text, raised,
          region, counted, streak, probe, answer>>

\* the globals before the loop; region_pair is not yet assigned
Init ==
    /\ frames_elapsed = 0
    /\ background = None
    /\ hand = None
    /\ region_pair = "unset"
    /\ text = ""
    /\ raised = ""
    /\ region = None
    /\ counted = None
    /\ streak = 0
    /\ probe = None
    /\ answer = None

\* the end of a pass, r being the region as the pass has left it:
\* write_on_image(frame, hand), then cv2.imshow and frames_elapsed += 1,
\* which an exception of write_on_image leaves undone
Shown(fe, bg, hnd, rp, r) ==
    LET written == Written(fe, hnd)
    IN  [frames_elapsed |-> IF written.raised = "" THEN fe + 1 ELSE fe,
         background |-> bg, hand |-> hnd, region_pair |-> rp,
         region |-> r,
         text |-> written.text, raised |-> written.raised]

\* The pixels of the outline of a blob: a pixel of the blob is on its outer
\* border when one of its four neighbours is outside the blob and its
\* holes, or outside the image.
Outline(blob) ==
    LET filled == blob \cup Holes(blob)
        Outside(x, y) ==
            x \notin Cols \/ y \notin Rows \/ ~ Covered(filled, x, y)
    IN  {p \in UNION {{<<x, q[1]>> : x \in q[2]..q[3]} : q \in blob} :
            \/ Outside(p[1] - 1, p[2])
            \/ Outside(p[1] + 1, p[2])
            \/ Outside(p[1], p[2] - 1)
            \/ Outside(p[1], p[2] + 1)}

\* cv2.drawContours(region, [segmented_region], -1, (255, 255, 255)):
\* the outline is drawn on the region itself, one pixel thick, in 255
drawContours(r, segmented_region) ==
    LET outline == Outline(segmented_region)
    IN  [y \in Rows |-> [x \in Cols |->
            IF <<x, y>> \in outline THEN 255 ELSE r[y][x]]]

\* a loop that goes on averaging after the calibration
LoopBody_Averaging(fe, bg, hnd, rp, r) ==
    IF fe < CALIBRATION_TIME \/ bg = None
    THEN {Shown(fe, get_average(bg, r), hnd, rp, r)}
    ELSE LET thresholded_region == Thresholded(bg, r)
             contours == findContours(thresholded_region)
             averaged == get_average(bg, r)
         IN  IF contours = {}
             THEN {Shown(fe, averaged, Flagged(hnd, FALSE), "None", r)}
             ELSE {LET drawn == drawContours(r, segmented_region)
                       got == get_hand_data(fe, Flagged(hnd, TRUE),
                                    thresholded_region, segmented_region)
                   IN  IF got.raised = ""
                       THEN Shown(fe, averaged, got.hand, "pair", drawn)
                       ELSE [frames_elapsed |-> fe, background |-> averaged,
                             hand |-> got.hand, region_pair |-> "pair",
                             region |-> drawn,
                             text |-> "", raised |-> got.raised] :
                   segmented_region \in Largest(contours)}

\* One pass of the body of the main loop at frame fe, with the globals
\* background bg and hand hnd, the loop's region_pair rp and the region r
\* that get_region cut from the frame: the outcomes it can have, the
\* region as the pass leaves it included.
\*     if frames_elapsed < CALIBRATION_TIME:
\*         get_average(region)
\*     else:
\*         region_pair = segment(region)
\*         if region_pair is not None:
\*             (thresholded_region, segmented_region) = region_pair
\*             cv2.drawContours(region, [segmented_region], -1, ...)
\*             cv2.imshow("Segmented Image", region)
\*             get_hand_data(thresholded_region, segmented_region)
\*     write_on_image(frame, hand)
\*     cv2.imshow("Camera Input", frame)
\*     frames_elapsed += 1
\* segment() reads background.astype("uint8"), which raises AttributeError
\* on None.  An exception of get_hand_data leaves the frame without text;
\* the outline is on the region by then.
LoopBody(fe, bg, hnd, rp, r) ==
    IF fe < CALIBRATION_TIME
    THEN {Shown(fe, get_average(bg, r), hnd, rp, r)}
    ELSE IF bg = None
    THEN {[frames_elapsed |-> fe, background |-> bg, hand |-> hnd,
           region_pair |-> rp, region |-> r,
           text |-> "", raised |-> "AttributeError"]}
    ELSE LET thresholded_region == Thresholded(bg, r)
             contours == findContours(thresholded_region)
         IN  IF contours = {}
             THEN {Shown(fe, bg, Flagged(hnd, FALSE), "None", r)}
             ELSE {LET drawn == drawContours(r, segmented_region)
                       got == get_hand_data(fe, Flagged(hnd, TRUE),
                                    thresholded_region, segmented_region)
                   IN  IF got.raised = ""
                       THEN Shown(fe, bg, got.hand, "pair", drawn)
                       ELSE [frames_elapsed |-> fe, background |-> bg,
                             hand |-> got.hand, region_pair |-> "pair",
                             region |-> drawn,
                             text |-> "", raised |-> got.raised] :
                   segmented_region \in Largest(contours)}

\* a pass of the loop on the region r; an exception ends the program
Pass(r) ==
    /\ raised = ""
    /\ probe = None
    /\ \E after \in LoopBody(frames_elapsed, background, hand,
                             region_pair, r) :
            /\ frames_elapsed' = after.frames_elapsed
            /\ background' = after.background
            /\ hand' = after.hand
            /\ region_pair' = after.region_pair
            /\ text' = after.text
            /\ raised' = after.raised
            /\ region' = <<after.region>>
    /\ UNCHANGED <<counted, streak, probe, answer>>

(* ---------------------------------------------------------------------- *)
(* Spec: the program from its start.  The camera may show anything: one of *)
(* the scenes, or an image whose row 0 is any pattern of ProbeW pixels.    *)
(* ---------------------------------------------------------------------- *)
ProbeImage(pattern) ==
    [y \in Rows |-> [x \in Cols |->
        IF y = 0 /\ x \in pattern THEN 255 ELSE 0]]

Regions ==
    {Catalogue[s] : s \in Scenes}
        \cup {ProbeImage(pattern) : pattern \in SUBSET (0..(ProbeW - 1))}

CameraPass == \E r \in Regions : Pass(r)

Next == CameraPass

Spec == Init /\ [][Next]_vars

(* ---------------------------------------------------------------------- *)
(* SpecPass: one pass of the loop from any frame number, with no hand or   *)
(* a hand of any flags and finger count, and, after frame 0, a background  *)
(* averaged over the empty scene or over the empty scene and one frame of  *)
(* a fist.                                                                 *)
(* ---------------------------------------------------------------------- *)
\* hands of every flag and finger count
AnyHands ==
    {[HandData(<<0, 0>>, <<0, 0>>, <<0, 0>>, <<0, 0>>, 0)
        EXCEPT !.isInFrame = f, !.isWaving = w, !.fingers = n] :
        f \in BOOLEAN, w \in BOOLEAN, n \in 0..MaxCounted}

Backgrounds ==
    {get_average(None, Catalogue["Empty"]),
     get_average(get_average(None, Catalogue["Empty"]), Catalogue["FistR"])}

InitPass ==
    /\ \E fe \in 0..MaxFrames, bg \in Backgrounds :
            /\ frames_elapsed = fe
            /\ background = IF fe = 0 THEN None ELSE bg
    /\ hand \in {None} \cup {<<h>> : h \in AnyHands}
    /\ region_pair = "unset"
    /\ text = ""
    /\ raised = ""
    /\ region = None
    /\ counted = None
    /\ streak = 0
    /\ probe = None
    /\ answer = None

ScenePass == \E s \in Scenes : Pass(Catalogue[s])

NextPass == ScenePass

SpecPass == InitPass /\ [][NextPass]_vars

(* ---------------------------------------------------------------------- *)
(* SpecLabel: write_on_image alone, at any frame number and for no hand or *)
(* a hand of any flags and finger count.                                   *)
(* ---------------------------------------------------------------------- *)
InitLabel ==
    /\ frames_elapsed = 0
    /\ background = None
    /\ hand = None
    /\ region_pair = "unset"
    /\ text = ""
    /\ raised = ""
    /\ region = None
    /\ counted = None
    /\ streak = 0
    /\ \E fe \in 0..MaxFrames, hnd \in {None} \cup {<<h>> : h \in AnyHands} :
            probe = <<[frames_elapsed |-> fe, hand |-> hnd]>>
    /\ answer = None

LabelProbe ==
    /\ probe # None
    /\ answer = None
    /\ answer' = <<Written(probe[1].frames_elapsed, probe[1].hand)>>
    /\ UNCHANGED <<frames_elapsed, background, hand, region_pair, text,
                   raised, region, counted, streak, probe>>

NextLabel == LabelProbe

SpecLabel == InitLabel /\ [][NextLabel]_vars

(* ---------------------------------------------------------------------- *)
(* SpecWave: check_for_waving alone, on a hand whose centre is in any      *)
(* column and whose flag is either way, with a new centre in any column.   *)
(* ---------------------------------------------------------------------- *)
InitWave ==
    /\ frames_elapsed = 0
    /\ background = None
    /\ hand = None
    /\ region_pair = "unset"
    /\ text = ""
    /\ raised = ""
    /\ region = None
    /\ counted = None
    /\ streak = 0
    /\ \E old \in Cols, new \in Cols, w \in BOOLEAN :
            probe = <<[hand |-> [HandData(<<0, 0>>, <<0, 0>>, <<0, 0>>,
                                          <<0, 0>>, old)
                                    EXCEPT !.isInFrame = TRUE,
                                           !.isWaving = w],
                       centerX |-> new]>>
    /\ answer = None

WaveProbe ==
    /\ probe # None
    /\ answer = None
    /\ answer' = <<check_for_waving(probe[1].hand, probe[1].centerX)>>
    /\ UNCHANGED <<frames_elapsed, background, hand, region_pair, text,
                   raised, region, counted, streak, probe>>

NextWave == WaveProbe

SpecWave == InitWave /\ [][NextWave]_vars

(* ---------------------------------------------------------------------- *)
(* SpecVote: the vote alone, called as get_hand_data would call it on      *)
(* MaxVoteFrames frames in a row from any frame of a window on, on a hand  *)
(* as the constructor makes it, with any count on every frame.  Each call  *)
(* is a call of its own: what one raises does not stop the next.           *)
(* ---------------------------------------------------------------------- *)
VoteStarts == CALIBRATION_TIME .. (CALIBRATION_TIME + VOTE_INTERVAL - 1)

InitVote ==
    /\ \E start \in VoteStarts :
            /\ frames_elapsed = start
            /\ probe = <<[start |-> start]>>
    /\ background = None
    /\ hand = <<[HandData(<<0, 0>>, <<0, 0>>, <<0, 0>>, <<0, 0>>, 0)
                    EXCEPT !.isInFrame = TRUE]>>
    /\ region_pair = "unset"
    /\ text = ""
    /\ raised = ""
    /\ region = None
    /\ counted = None
    /\ streak = 0
    /\ answer = None

VoteFrame ==
    /\ probe # None
    /\ frames_elapsed < probe[1].start + MaxVoteFrames
    /\ \E count \in 0..MaxVoted :
            LET voted == Vote(frames_elapsed, hand[1], count)
            IN  /\ hand' = <<voted.hand>>
                /\ raised' = voted.raised
                /\ counted' = <<count>>
                /\ streak' = IF counted = <<count>> THEN streak + 1 ELSE 1
    /\ frames_elapsed' = frames_elapsed + 1
    /\ UNCHANGED <<background, region_pair, text, region, probe, answer>>

NextVote == VoteFrame

SpecVote == InitVote /\ [][NextVote]_vars

(* ---------------------------------------------------------------------- *)
(* count_fingers alone: SpecFingers hands it an image whose row 0 is any   *)
(* pattern of ProbeW pixels and a hand lying in that row from column 0 to  *)
(* any column.                                                             *)
(* ---------------------------------------------------------------------- *)
ProbeHand(right) ==
    HandData(<<0, 0>>, <<0, 0>>, <<0, 0>>, <<right, 0>>, CenterX(<<0, 0>>, <<right, 0>>))

InitFingers ==
    /\ frames_elapsed = 0
    /\ background = None
    /\ hand = None
    /\ region_pair = "unset"
    /\ text = ""
    /\ raised = ""
    /\ region = None
    /\ counted = None
    /\ streak = 0
    /\ \E pattern \in SUBSET (0..(ProbeW - 1)), right \in Cols :
            probe = <<[pattern |-> pattern, right |-> right]>>
    /\ answer = None

CountProbe ==
    /\ probe # None
    /\ answer = None
    /\ answer' = <<count_fingers(ProbeImage(probe[1].pattern),
                                 ProbeHand(probe[1].right))>>
    /\ UNCHANGED <<frames_elapsed, background, hand, region_pair, text,
                   raised, region, counted, streak, probe>>

NextFingers == CountProbe

SpecFingers == InitFingers /\ [][NextFingers]_vars

(* ---------------------------------------------------------------------- *)
(* most_frequent alone: SpecMode hands it any list of up to MaxHistory     *)
(* counts.                                                                 *)
(* ---------------------------------------------------------------------- *)
Histories ==
    UNION {[1..n -> 0..MaxGesture] : n \in 0..MaxHistory}

InitMode ==
    /\ frames_elapsed = 0
    /\ background = None
    /\ hand = None
    /\ region_pair = "unset"
    /\ text = ""
    /\ raised = ""
    /\ region = None
    /\ counted = None
    /\ streak = 0
    /\ \E input_list \in Histories : probe = <<[list |-> input_list]>>
    /\ answer = None

ModeProbe ==
    /\ probe # None
    /\ answer = None
    /\ answer' = <<most_frequent(probe[1].list)>>
    /\ UNCHANGED <<frames_elapsed, background, hand, region_pair, text,
                   raised, region, counted, streak, probe>>

NextMode == ModeProbe

SpecMode == InitMode /\ [][NextMode]_vars

(* ---------------------------------------------------------------------- *)
(* Helpers of the properties.                                              *)
(* ---------------------------------------------------------------------- *)
\* the frame of the last pass was handled after the calibration
AfterCalibration == raised # "" /\ frames_elapsed >= CALIBRATION_TIME

\* the texts write_on_image chooses for a hand that is in the frame
HandTexts == {"Waving", "Rock", "Pointing", "Scissors", "Searching..."}

\* the list of counts of the hand
History(hnd) == IF hnd = None THEN << >> ELSE hnd[1].gesture_list

(* ---------------------------------------------------------------------- *)
(* C1.  After the calibration, segment() returns None for a frame if and   *)
(* only if the text of that frame is "No hand detected"; in particular a   *)
(* frame with a contour, the one that is to create the hand included, is   *)
(* given a text, and one other than "No hand detected".                    *)
(* ---------------------------------------------------------------------- *)
C1_NoContourIffNoHand ==
    AfterCalibration =>
        /\ (region_pair = "None") <=> (text = "No hand detected")
        /\ region_pair = "pair" => text \in HandTexts

(* ---------------------------------------------------------------------- *)
(* C2.  A call of check_for_waving leaves isWaving true if and only if the *)
(* new centre differs from the one stored by more than 3 columns, in       *)
(* either direction, and false otherwise.                                  *)
(* ---------------------------------------------------------------------- *)
C2_WavingIffMoved ==
    answer # None =>
        (answer[1].hand.isWaving <=>
            Abs(probe[1].centerX - probe[1].hand.centerX) > WAVE_DISTANCE)

(* ---------------------------------------------------------------------- *)
(* C3.  A pass at a frame number below CALIBRATION_TIME puts the text      *)
(* "Calibrating..." on its frame, whatever the hand holds, and leaves the  *)
(* hand and region_pair as they were: no hand is created or changed and    *)
(* segment() is not called.                                                *)
(* ---------------------------------------------------------------------- *)
C3_CalibratingOnly ==
    [][frames_elapsed < CALIBRATION_TIME =>
            /\ text' = "Calibrating..."
            /\ hand' = hand
            /\ region_pair' = region_pair]_vars

\* a pass of the calibration, after frame 0, with a hand that is in the
\* frame and waving
C3_Witness ==
    /\ raised = "NameError"
    /\ region # None
    /\ frames_elapsed \in 1..(CALIBRATION_TIME - 1)
    /\ hand # None
    /\ hand[1].isInFrame
    /\ hand[1].isWaving
    /\ text = "Calibrating..."

(* ---------------------------------------------------------------------- *)
(* C4.  After the calibration, for a hand that is in the frame and waving, *)
(* write_on_image puts "Waving" on the frame, whatever hand.fingers is.    *)
(* ---------------------------------------------------------------------- *)
C4_WavingFirst ==
    (/\ answer # None
     /\ probe[1].frames_elapsed >= CALIBRATION_TIME
     /\ probe[1].hand # None
     /\ probe[1].hand[1].isInFrame
     /\ probe[1].hand[1].isWaving)
        => answer[1].text = "Waving"

\* write_on_image has been called for a waving hand that shows two fingers
C4_Witness ==
    /\ answer # None
    /\ probe[1].frames_elapsed >= CALIBRATION_TIME
    /\ probe[1].hand # None
    /\ probe[1].hand[1].isInFrame
    /\ probe[1].hand[1].isWaving
    /\ probe[1].hand[1].fingers = 2
    /\ answer[1].text = "Waving"

(* ---------------------------------------------------------------------- *)
(* C5.  A pass at a frame number of CALIBRATION_TIME or more leaves the    *)
(* background as it was; a pass below CALIBRATION_TIME seeds it with the   *)
(* region or accumulates the region into it.                               *)
(* ---------------------------------------------------------------------- *)
C5_BackgroundFrozen ==
    [][/\ frames_elapsed >= CALIBRATION_TIME => background' = background
       /\ frames_elapsed < CALIBRATION_TIME =>
                background' = get_average(background, region'[1])]_vars

\* a pass after the calibration has segmented a region that differs from
\* the background, and drawn the outline on it
C5_Witness ==
    /\ AfterCalibration
    /\ region_pair = "pair"
    /\ background \in Backgrounds
    /\ region = <<drawContours(Catalogue["FistL"],
                               {<<1, 1, 10>>, <<2, 1, 10>>})>>

(* ---------------------------------------------------------------------- *)
(* C6.  When the count is K on each of the 12 frames of a window, the hand *)
(* being found on every one, then after the frame with                     *)
(* frames_elapsed % 12 == 0 that ends the window hand.fingers is K and the *)
(* list of counts is empty.                                                *)
(* ---------------------------------------------------------------------- *)
C6_ConstantWindowVotesK ==
    (/\ counted # None
     /\ streak >= VOTE_INTERVAL
     /\ (frames_elapsed - 1) % VOTE_INTERVAL = 0)
        => /\ hand[1].fingers = counted[1]
           /\ History(hand) = << >>

(* ---------------------------------------------------------------------- *)
(* C7.  After the calibration, for a hand that is in the frame and not     *)
(* waving, write_on_image puts "Rock", "Pointing" or "Scissors" on the     *)
(* frame for 0, 1 or 2 fingers and "Searching..." for any other count; a   *)
(* count outside 0..2 raises no error.                                     *)
(* ---------------------------------------------------------------------- *)
TextOfFingers(n) ==
    CASE n = 0 -> "Rock"
      [] n = 1 -> "Pointing"
      [] n = 2 -> "Scissors"
      [] OTHER -> "Searching..."

C7_TextOfFingers ==
    (/\ answer # None
     /\ probe[1].frames_elapsed >= CALIBRATION_TIME
     /\ probe[1].hand # None
     /\ probe[1].hand[1].isInFrame
     /\ ~ probe[1].hand[1].isWaving)
        => /\ answer[1].text = TextOfFingers(probe[1].hand[1].fingers)
           /\ probe[1].hand[1].fingers \notin 0..2 => answer[1].raised = ""

(* ---------------------------------------------------------------------- *)
(* C8.  With frames numbered from 1: when the first frames show the still, *)
(* empty scene, the program goes on to frame 42 (frames_elapsed reaches    *)
(* CALIBRATION_TIME + VOTE_INTERVAL), and the text of frame 42, the hand   *)
(* being a fist from frame 31 on, is "Rock".                               *)
(* ---------------------------------------------------------------------- *)
C8_RockAtFrame42 ==
    (region # None /\ region[1] = Catalogue["Empty"]) =>
        /\ frames_elapsed < CALIBRATION_TIME + VOTE_INTERVAL => raised = ""
        /\ frames_elapsed = CALIBRATION_TIME + VOTE_INTERVAL => text = "Rock"

(* ---------------------------------------------------------------------- *)
(* C9.  count_fingers returns the number of crossings of the scan line     *)
(* whose length L in pixels has 5 < L < 3/4 * (right.x - left.x).          *)
(* ---------------------------------------------------------------------- *)
C9_CountsByPixelLength ==
    answer # None =>
        answer[1] =
            Cardinality(
                {c \in RowRuns(ProbeImage(probe[1].pattern), 0) :
                    LET L == c[3] - c[2] + 1
                    IN  MIN_FINGER_WIDTH < L /\ 4 * L < 3 * probe[1].right})

(* ---------------------------------------------------------------------- *)
(* C10.  The list of finger counts never holds more than 12 entries.       *)
(* ---------------------------------------------------------------------- *)
C10_HistoryBounded ==
    hand # None => Len(History(hand)) <= VOTE_INTERVAL

\* the vote has been run on more than 12 frames in a row
C10_Witness ==
    /\ probe # None
    /\ hand # None
    /\ raised # ""
    /\ frames_elapsed > probe[1].start + VOTE_INTERVAL
    /\ Len(History(hand)) <= VOTE_INTERVAL

(* ---------------------------------------------------------------------- *)
(* C11.  When several values tie for the highest frequency of the list,    *)
(* most_frequent returns the tied value observed most recently: the one    *)
(* whose last occurrence is nearest the newest end of the list.            *)
(* ---------------------------------------------------------------------- *)
\* how often v occurs in list, and where it occurs last
Occurrences(list, v) == Cardinality({j \in 1..Len(list) : list[j] = v})
LastSeen(list, v) == MaxOf({j \in 1..Len(list) : list[j] = v})

\* the values of the highest frequency
Leaders(list) ==
    {v \in {list[j] : j \in 1..Len(list)} :
        \A j \in 1..Len(list) :
            Occurrences(list, list[j]) <= Occurrences(list, v)}

C11_TieGoesToNewest ==
    (answer # None /\ probe[1].list # << >>) =>
        LET list == probe[1].list
        IN  /\ answer[1] \in Leaders(list)
            /\ \A v \in Leaders(list) :
                    LastSeen(list, v) <= LastSeen(list, answer[1])

(* ---------------------------------------------------------------------- *)
(* C12.  isWaving, centerX and prevCenterX of the hand change only in a    *)
(* pass with frames_elapsed % 8 == 0 in which a hand is found; every other *)
(* pass leaves all three as they are.                                      *)
(* ---------------------------------------------------------------------- *)
C12_WaveSampledOnly ==
    [][hand # None =>
            \/ /\ hand' # None
               /\ hand'[1].isWaving = hand[1].isWaving
               /\ hand'[1].centerX = hand[1].centerX
               /\ hand'[1].prevCenterX = hand[1].prevCenterX
            \/ /\ frames_elapsed % WAVE_INTERVAL = 0
               /\ region_pair' = "pair"]_vars

\* a pass with frames_elapsed % 8 # 0 has found the fist of scene FistR,
\* whose centre is not the centre the existing hand holds
C12_Witness ==
    /\ AfterCalibration
    /\ frames_elapsed % WAVE_INTERVAL # 0
    /\ region_pair = "pair"
    /\ raised = "UnboundLocalError"
    /\ hand # None
    /\ hand[1].isWaving
    /\ region = <<drawContours(Catalogue["FistR"],
                               {<<1, 5, 14>>, <<2, 5, 14>>})>>

(* ---------------------------------------------------------------------- *)
(* C13.  Every frame appends its count to the list, so that the list holds *)
(* the counts of the frames since the last frame with                      *)
(* frames_elapsed % 12 == 0, which empties it.                             *)
(* ---------------------------------------------------------------------- *)
C13_AppendedEveryFrame ==
    [][frames_elapsed' = frames_elapsed + 1 =>
            History(hand') =
                IF frames_elapsed % VOTE_INTERVAL = 0 THEN << >>
                ELSE Append(History(hand), counted'[1])]_vars

C16_KeptWhenLost ==
    [][hand # None =>
            /\ hand' # None
            /\ (/\ frames_elapsed >= CALIBRATION_TIME
                /\ region_pair' = "None")
                    => hand' = <<[hand[1] EXCEPT !.isInFrame = FALSE]>>]_vars

\* a pass has found no contour and kept a hand that was in the frame,
\* waving and showing two fingers
C16_Witness ==
    /\ AfterCalibration
    /\ region_pair = "None"
    /\ hand # None
    /\ ~ hand[1].isInFrame
    /\ hand[1].isWaving
    /\ hand[1].fingers = 2
    /\ text = "No hand detected"

====
